---- MODULE Spec2Model ----
(***************************************************************************)
(* SpotiBye playback/queue controller (AudioPlayerService).                *)
(*                                                                         *)
(* The state is the service's signals and private fields, the native       *)
(* audio element's source and playing flag, and the loadTrack calls that   *)
(* are suspended at an await.  Every handler is one action; the two awaits *)
(* of loadTrack split it into a synchronous head (loadTrack) and the       *)
(* resumptions after getAudioUrl and after audio.play().                   *)
(*                                                                         *)
(* loadTrack, toggleShuffle, shuffleArray, the audio listeners and the     *)
(* computed signals are translated from the code excerpts; setQueue, next, *)
(* previous, handleTrackEnded, cycleRepeat, togglePlay, seek, seekPercent,  *)
(* setVolume and toggleMute are not among the available sources and are    *)
(* modelled from the specification's description.                          *)
(***************************************************************************)
EXTENDS Integers, Sequences, FiniteSets, TLC

\* == bounds
MaxQueue == 3       \* longest track list handed to setQueue
MaxOverlap == 2     \* loadTrack calls suspended at an await at one time (SpecOverlap)

\* == program constants
InitialVolume == 7  \* signal(0.7), volumes being in tenths
FullVolume == 10    \* volume 1

\* == values
Library == SubSeq(<<"A", "B", "C", "D", "E">>, 1, MaxQueue)   \* the library, Track.id being unique
Tracks == {Library[k] : k \in 1..Len(Library)}
NoTrack == "null"                  \* _currentTrack initial value
Undefined == "undefined"           \* array read outside its bounds
NoUrl == "null"                    \* audioUrl / audio.src not set
PlayerStates == {"stopped", "buffering", "playing", "paused"}
RepeatModes == {"off", "all", "one"}

VARIABLES
  currentTrack,    \* _currentTrack signal
  playerState,     \* _playerState signal
  queue,           \* _queue signal (1-based sequence of track ids)
  queueIndex,      \* _queueIndex signal (0-based, as in the code)
  originalQueue,   \* private originalQueue field
  shuffle,         \* _shuffle signal
  repeatMode,      \* _repeatMode signal
  audioUrl,        \* private audioUrl field: track whose blob URL is held
  audioSrc,        \* native audio.src: track whose blob URL is assigned
  audioPlaying,    \* native element is playing its source
  pending,         \* suspended loadTrack calls, oldest first
  lastOp,          \* history: the handler that ran last and its outcome
  shuffleHist,     \* history: the queue shuffle was last enabled on
  volume,          \* _volume signal, in tenths
  muted,           \* muted flag
  progress,        \* _progress signal, in time units
  audioTime,       \* native audio.currentTime, in time units
  playRequested    \* an audio.play() made by togglePlay is outstanding

vars == <<currentTrack, playerState, queue, queueIndex, originalQueue,
          shuffle, repeatMode, audioUrl, audioSrc, audioPlaying, pending,
          lastOp, shuffleHist, volume, muted, progress, audioTime,
          playRequested>>

queueVars == <<queue, queueIndex, originalQueue, shuffle>>

mixVars == <<volume, muted, progress>>

nativeVars == <<audioTime, playRequested>>

\* == helpers
Range(s) == {s[k] : k \in 1..Len(s)}

\* queue[i] with the code's 0-based index; undefined outside the array
TrackAt(q, i) == IF i >= 0 /\ i < Len(q) THEN q[i + 1] ELSE Undefined

\* track lists the UI hands to setQueue: one track (onPlayTrack) or the
\* first n tracks of the library listing; the start index is a position of
\* the list, or 0 for the empty listing
TrackLists == {<<t>> : t \in Tracks} \cup {SubSeq(Library, 1, n) : n \in 0..MaxQueue}

\* shuffled.findIndex(t => t.id === id): 0-based index of the first match, -1 if none
FindIndex(q, id) ==
  IF \E k \in 1..Len(q) : q[k] = id
  THEN (CHOOSE k \in 1..Len(q) : q[k] = id /\ \A m \in 1..(k - 1) : q[m] # id) - 1
  ELSE -1

\* [a[i], a[j]] = [a[j], a[i]] with 0-based i, j
Swap(a, i, j) ==
  [k \in 1..Len(a) |-> IF k = i + 1 THEN a[j + 1]
                       ELSE IF k = j + 1 THEN a[i + 1] ELSE a[k]]

\* the values Math.floor(Math.random() * (i + 1)) can take for i = n-1 .. 1
RandomDraws(n) == {js \in [1..(n - 1) -> 0..(n - 1)] : \A i \in 1..(n - 1) : js[i] <= i}

RECURSIVE ShuffleFrom(_, _, _)
ShuffleFrom(shuffled, i, js) ==
  IF i > 0 THEN ShuffleFrom(Swap(shuffled, i, js[i]), i - 1, js) ELSE shuffled

\* Fisher-Yates, js[i] being the random index drawn at step i
shuffleArray(array, js) == ShuffleFrom(array, Len(array) - 1, js)

\* computed signals
isPlaying == playerState = "playing"
isBuffering == playerState = "buffering"
isStopped == playerState = "stopped"
hasTrack == currentTrack # NoTrack
hasQueue == Len(queue) > 0
\* canPlayNext counting the last index as having a successor
canPlayNextAtLast ==
  IF repeatMode = "all" \/ repeatMode = "one" THEN TRUE
  ELSE queueIndex <= Len(queue) - 1

\* canPlayNext looking at the index only
canPlayNextIndexOnly == queueIndex < Len(queue) - 1

canPlayNext ==
  IF repeatMode = "all" \/ repeatMode = "one" THEN TRUE
  ELSE queueIndex < Len(queue) - 1

\* Track.duration of the library's tracks, in time units
Dur(track) ==
  CASE track = "A" -> 4
    [] track = "B" -> 2
    [] track = "C" -> 6
    [] track = "D" -> 8
    [] OTHER -> 10

\* duration: the length of the current track, 0 without one
duration == IF currentTrack \in Tracks THEN Dur(currentTrack) ELSE 0

\* a quotient of two numbers, kept exact
Ratio(num, den) == [num |-> num, den |-> den]

\* progressPercent with the numerator and the denominator exchanged
progressPercentInverted ==
  IF duration > 0 THEN Ratio(duration * 100, progress) ELSE Ratio(0, 1)

\* progressPercent: (progress / duration) * 100 when duration > 0, else 0
progressPercent ==
  IF duration > 0 THEN Ratio(progress * 100, duration) ELSE Ratio(0, 1)

\* Math.max(lo, Math.min(hi, x))
Clamp(x, lo, hi) == IF x < lo THEN lo ELSE IF x > hi THEN hi ELSE x

\* history record: handler name, the track it concerns, the value returned by
\* a loadTrack call that finished in this step ("-" when none did), whether
\* that call was the most recently started one, and the arguments of setQueue
Op(name, track, returned, newest, args) ==
  [op |-> name, track |-> track, returned |-> returned, newest |-> newest,
   args |-> args]

\* history of the shuffle in force: the queue it was enabled on, whether the
\* queue has been replaced since (setQueue), whether the index has moved since
Hist(q, replaced, moved) == [q |-> q, replaced |-> replaced, moved |-> moved]

\* == initial state
Init ==
  /\ currentTrack = NoTrack
  /\ playerState = "stopped"
  /\ queue = <<>>
  /\ queueIndex = 0
  /\ originalQueue = <<>>
  /\ shuffle = FALSE
  /\ repeatMode = "off"
  /\ audioUrl = NoUrl
  /\ audioSrc = NoUrl
  /\ audioPlaying = FALSE
  /\ pending = <<>>
  /\ lastOp = Op("init", NoTrack, "-", FALSE, <<>>)
  /\ shuffleHist = Hist(<<>>, FALSE, FALSE)
  /\ volume = InitialVolume
  /\ muted = FALSE
  /\ progress = 0
  /\ audioTime = 0
  /\ playRequested = FALSE

\* == loadTrack
\* loadTrack that does not publish the new track
loadTrackKeepsTrack(track, autoPlay) ==
  /\ audioUrl' = NoUrl
  /\ playerState' = "buffering"
  /\ currentTrack' = currentTrack
  /\ pending' = Append([k \in 1..Len(pending) |-> [pending[k] EXCEPT !.newest = FALSE]],
                       [track |-> track, autoPlay |-> autoPlay,
                        pc |-> "getAudioUrl", newest |-> TRUE])

\* loadTrack that enters stopped instead of buffering
loadTrackStops(track, autoPlay) ==
  /\ audioUrl' = NoUrl
  /\ playerState' = "stopped"
  /\ currentTrack' = track
  /\ pending' = Append([k \in 1..Len(pending) |-> [pending[k] EXCEPT !.newest = FALSE]],
                       [track |-> track, autoPlay |-> autoPlay,
                        pc |-> "getAudioUrl", newest |-> TRUE])

\* loadTrack up to its first await: revoke the held URL, enter buffering,
\* publish the track, then suspend in trackService.getAudioUrl(track)
loadTrack(track, autoPlay) ==
  /\ audioUrl' = NoUrl
  /\ playerState' = "buffering"
  /\ currentTrack' = track
  /\ pending' = Append([k \in 1..Len(pending) |-> [pending[k] EXCEPT !.newest = FALSE]],
                       [track |-> track, autoPlay |-> autoPlay,
                        pc |-> "getAudioUrl", newest |-> TRUE])

Remove(s, i) == [k \in 1..(Len(s) - 1) |-> IF k < i THEN s[k] ELSE s[k + 1]]

\* the UI calls loadTrack(track, autoPlay) directly
UiLoadTrack(track, autoPlay) ==
  /\ loadTrack(track, autoPlay)
  /\ lastOp' = Op("loadTrack", track, "-", TRUE, <<>>)
  /\ UNCHANGED <<queueVars, repeatMode, audioSrc, audioPlaying, shuffleHist>>
  /\ UNCHANGED <<mixVars, nativeVars>>

\* getAudioUrl resolved with a URL: keep it, assign it, audio.load() (which
\* rewinds the element and aborts an outstanding play()); without autoPlay
\* the call returns true, with autoPlay it suspends in audio.play()
loadTrackUrl(i) ==
  /\ i \in 1..Len(pending)
  /\ pending[i].pc = "getAudioUrl"
  /\ pending[i].track \in Tracks
  /\ audioUrl' = pending[i].track
  /\ audioSrc' = pending[i].track
  /\ audioPlaying' = FALSE
  /\ audioTime' = 0
  /\ playRequested' = FALSE
  /\ UNCHANGED mixVars
  /\ IF pending[i].autoPlay
     THEN /\ pending' = [pending EXCEPT ![i].pc = "play"]
          /\ lastOp' = Op("loadTrackUrl", pending[i].track, "-", pending[i].newest, <<>>)
     ELSE /\ pending' = Remove(pending, i)
          /\ lastOp' = Op("loadTrackUrl", pending[i].track, "true", pending[i].newest, <<>>)
  /\ UNCHANGED <<currentTrack, playerState, queueVars, repeatMode, shuffleHist>>

\* getAudioUrl resolved with no URL: `if (!url) return false`
loadTrackNoUrl(i) ==
  /\ i \in 1..Len(pending)
  /\ pending[i].pc = "getAudioUrl"
  /\ pending' = Remove(pending, i)
  /\ lastOp' = Op("loadTrackNoUrl", pending[i].track, "false", pending[i].newest, <<>>)
  /\ UNCHANGED <<currentTrack, playerState, queueVars, repeatMode,
                 audioUrl, audioSrc, audioPlaying, shuffleHist>>
  /\ UNCHANGED <<mixVars, nativeVars>>

\* a catch block that also clears the current track
loadTrackUrlThrowsClears(i) ==
  /\ i \in 1..Len(pending)
  /\ pending[i].pc = "getAudioUrl"
  /\ playerState' = "stopped"
  /\ currentTrack' = NoTrack
  /\ pending' = Remove(pending, i)
  /\ lastOp' = Op("loadTrackUrlThrows", pending[i].track, "false", pending[i].newest, <<>>)
  /\ UNCHANGED <<queueVars, repeatMode, audioUrl, audioSrc, audioPlaying, shuffleHist>>
  /\ UNCHANGED <<mixVars, nativeVars>>

\* getAudioUrl rejected: the catch block sets stopped and returns false
loadTrackUrlThrows(i) ==
  /\ i \in 1..Len(pending)
  /\ pending[i].pc = "getAudioUrl"
  /\ playerState' = "stopped"
  /\ pending' = Remove(pending, i)
  /\ lastOp' = Op("loadTrackUrlThrows", pending[i].track, "false", pending[i].newest, <<>>)
  /\ UNCHANGED <<currentTrack, queueVars, repeatMode, audioUrl, audioSrc, audioPlaying,
                 shuffleHist>>
  /\ UNCHANGED <<mixVars, nativeVars>>

\* audio.play() fulfilled without the element playing
loadTrackPlayOkNotPlaying(i) ==
  /\ i \in 1..Len(pending)
  /\ pending[i].pc = "play"
  /\ audioSrc # NoUrl
  /\ playerState' = "playing"
  /\ audioPlaying' = FALSE
  /\ pending' = Remove(pending, i)
  /\ lastOp' = Op("loadTrackPlayOk", pending[i].track, "true", pending[i].newest, <<>>)
  /\ playRequested' = FALSE
  /\ UNCHANGED <<currentTrack, queueVars, repeatMode, audioUrl, audioSrc, shuffleHist>>
  /\ UNCHANGED <<mixVars, audioTime>>

\* audio.play() fulfilled: the 'playing' listener sets playing, the call returns true
loadTrackPlayOk(i) ==
  /\ i \in 1..Len(pending)
  /\ pending[i].pc = "play"
  /\ audioSrc # NoUrl
  /\ playerState' = "playing"
  /\ audioPlaying' = TRUE
  /\ pending' = Remove(pending, i)
  /\ lastOp' = Op("loadTrackPlayOk", pending[i].track, "true", pending[i].newest, <<>>)
  /\ playRequested' = FALSE
  /\ UNCHANGED <<currentTrack, queueVars, repeatMode, audioUrl, audioSrc, shuffleHist>>
  /\ UNCHANGED <<mixVars, audioTime>>

\* audio.play() rejected: the catch block sets stopped and returns false
loadTrackPlayRejected(i) ==
  /\ i \in 1..Len(pending)
  /\ pending[i].pc = "play"
  /\ playerState' = "stopped"
  /\ pending' = Remove(pending, i)
  /\ lastOp' = Op("loadTrackPlayRejected", pending[i].track, "false", pending[i].newest, <<>>)
  /\ UNCHANGED <<currentTrack, queueVars, repeatMode, audioUrl, audioSrc, audioPlaying,
                 shuffleHist>>
  /\ UNCHANGED <<mixVars, nativeVars>>

\* == queue commands
\* setQueue(tracks, startIndex): replace queue and queueIndex, load the track at startIndex
setQueue(tracks, startIndex) ==
  /\ queue' = tracks
  /\ queueIndex' = startIndex
  /\ loadTrack(TrackAt(tracks, startIndex), TRUE)
  /\ lastOp' = Op("setQueue", TrackAt(tracks, startIndex), "-", TRUE, <<tracks, startIndex>>)
  /\ shuffleHist' = [shuffleHist EXCEPT !.replaced = TRUE]
  /\ UNCHANGED <<originalQueue, shuffle, repeatMode, audioSrc, audioPlaying>>
  /\ UNCHANGED <<mixVars, nativeVars>>

\* the index next() moves to, or -1 when there is nothing to advance to
NextIndex ==
  IF queueIndex < Len(queue) - 1 THEN queueIndex + 1
  ELSE IF repeatMode = "all" THEN 0 ELSE -1

\* advance, wrapping with repeat all; past the end without it, stop
Advance(name) ==
  IF NextIndex >= 0
  THEN /\ queueIndex' = NextIndex
       /\ loadTrack(TrackAt(queue, NextIndex), TRUE)
       /\ lastOp' = Op(name, TrackAt(queue, NextIndex), "-", TRUE, <<>>)
       /\ shuffleHist' = [shuffleHist EXCEPT !.moved = TRUE]
       /\ UNCHANGED <<queue, originalQueue, shuffle, repeatMode, audioSrc>>
  ELSE /\ playerState' = "stopped"
       /\ lastOp' = Op(name, currentTrack, "-", FALSE, <<>>)
       /\ UNCHANGED <<currentTrack, queueVars, repeatMode, audioUrl, audioSrc, pending,
                      shuffleHist>>

next ==
  /\ hasQueue
  /\ Advance("next")
  /\ audioPlaying' = IF NextIndex >= 0 THEN audioPlaying ELSE FALSE
  /\ UNCHANGED <<mixVars, nativeVars>>

\* the index previous() moves to
PreviousIndex ==
  IF queueIndex > 0 THEN queueIndex - 1
  ELSE IF repeatMode = "all" THEN Len(queue) - 1 ELSE queueIndex

previous ==
  /\ hasQueue
  /\ queueIndex' = PreviousIndex
  /\ loadTrack(TrackAt(queue, PreviousIndex), TRUE)
  /\ lastOp' = Op("previous", TrackAt(queue, PreviousIndex), "-", TRUE, <<>>)
  /\ shuffleHist' = [shuffleHist EXCEPT !.moved = TRUE]
  /\ UNCHANGED <<queue, originalQueue, shuffle, repeatMode, audioSrc, audioPlaying>>
  /\ UNCHANGED <<mixVars, nativeVars>>

\* the native 'ended' event: replay with repeat one, otherwise advance
handleTrackEnded ==
  /\ audioPlaying
  /\ audioPlaying' = FALSE
  /\ IF repeatMode = "one"
     THEN /\ loadTrack(currentTrack, TRUE)
          /\ lastOp' = Op("ended", currentTrack, "-", TRUE, <<>>)
          /\ UNCHANGED <<queueVars, repeatMode, audioSrc, shuffleHist>>
     ELSE Advance("ended")
  /\ UNCHANGED <<mixVars, nativeVars>>

\* a rotation that never reaches repeat one
RepeatModeSkipsOne(mode) == IF mode = "off" THEN "all" ELSE "off"

\* cycleRepeat(): off -> all -> one -> off
NextRepeatMode(mode) ==
  CASE mode = "off" -> "all"
    [] mode = "all" -> "one"
    [] OTHER -> "off"

cycleRepeat ==
  /\ repeatMode' = NextRepeatMode(repeatMode)
  /\ lastOp' = Op("cycleRepeat", currentTrack, "-", FALSE, <<>>)
  /\ UNCHANGED <<currentTrack, playerState, queueVars, audioUrl, audioSrc,
                 audioPlaying, pending, shuffleHist>>
  /\ UNCHANGED <<mixVars, nativeVars>>

\* the swap-in guarded by currentIndex > 1
ShuffleOnSwapsLate(js) ==
  LET shuffled == shuffleArray(queue, js)
      currentIndex == FindIndex(shuffled, currentTrack)
  IN /\ originalQueue' = queue
     /\ IF currentTrack \notin {NoTrack, Undefined}
        THEN /\ queue' = IF currentIndex > 1 THEN Swap(shuffled, 0, currentIndex)
                         ELSE shuffled
             /\ queueIndex' = 0
        ELSE /\ queue' = shuffled
             /\ queueIndex' = queueIndex

\* toggleShuffle with newShuffle true: snapshot, shuffle, bring the current
\* track to position 0; js are the random draws of shuffleArray
ShuffleOn(js) ==
  LET shuffled == shuffleArray(queue, js)
      currentIndex == FindIndex(shuffled, currentTrack)
  IN /\ originalQueue' = queue
     /\ IF currentTrack \notin {NoTrack, Undefined}
        THEN /\ queue' = IF currentIndex > 0 THEN Swap(shuffled, 0, currentIndex)
                         ELSE shuffled
             /\ queueIndex' = 0
        ELSE /\ queue' = shuffled
             /\ queueIndex' = queueIndex

\* disabling that leaves the shuffled queue in place
ShuffleOffKeeps ==
  /\ queue' = queue
  /\ UNCHANGED <<queueIndex, originalQueue>>

\* toggleShuffle with newShuffle false: restore the snapshot
ShuffleOff ==
  /\ queue' = originalQueue
  /\ UNCHANGED <<queueIndex, originalQueue>>

\* toggleShuffle that also reloads the current track
toggleShuffleReloads ==
  /\ shuffle' = ~shuffle
  /\ IF ~shuffle THEN \E js \in RandomDraws(Len(queue)) : ShuffleOn(js)
     ELSE ShuffleOff
  /\ shuffleHist' = IF ~shuffle THEN Hist(queue, FALSE, FALSE) ELSE shuffleHist
  /\ lastOp' = Op("toggleShuffle", currentTrack, "-", FALSE, <<>>)
  /\ loadTrack(currentTrack, TRUE)
  /\ UNCHANGED <<repeatMode, audioSrc, audioPlaying>>
  /\ UNCHANGED <<mixVars, nativeVars>>

toggleShuffle ==
  /\ shuffle' = ~shuffle
  /\ IF ~shuffle THEN \E js \in RandomDraws(Len(queue)) : ShuffleOn(js)
     ELSE ShuffleOff
  /\ shuffleHist' = IF ~shuffle THEN Hist(queue, FALSE, FALSE) ELSE shuffleHist
  /\ lastOp' = Op("toggleShuffle", currentTrack, "-", FALSE, <<>>)
  /\ UNCHANGED <<currentTrack, playerState, repeatMode, audioUrl, audioSrc,
                 audioPlaying, pending>>
  /\ UNCHANGED <<mixVars, nativeVars>>

\* == play and pause
\* togglePlay(): pause when playing, otherwise ask the element to play
togglePlay ==
  /\ IF isPlaying
     THEN /\ playerState' = "paused"
          /\ audioPlaying' = FALSE
          /\ playRequested' = FALSE
     ELSE /\ playRequested' = TRUE
          /\ UNCHANGED <<playerState, audioPlaying>>
  /\ lastOp' = Op("togglePlay", currentTrack, "-", FALSE, <<playerState>>)
  /\ UNCHANGED <<currentTrack, queueVars, repeatMode, audioUrl, audioSrc, pending,
                 shuffleHist, mixVars, audioTime>>

\* a 'playing' listener that leaves the state alone
playingIgnored ==
  /\ playRequested
  /\ audioSrc # NoUrl
  /\ audioPlaying' = TRUE
  /\ playRequested' = FALSE
  /\ lastOp' = Op("playing", currentTrack, "-", FALSE, <<playerState>>)
  /\ UNCHANGED <<currentTrack, playerState, queueVars, repeatMode, audioUrl, audioSrc,
                 pending, shuffleHist, mixVars, audioTime>>

\* the native 'playing' event after togglePlay(): playback of the assigned
\* source has started and the listener sets the state to playing
playing ==
  /\ playRequested
  /\ audioSrc # NoUrl
  /\ playerState' = "playing"
  /\ audioPlaying' = TRUE
  /\ playRequested' = FALSE
  /\ lastOp' = Op("playing", currentTrack, "-", FALSE, <<playerState>>)
  /\ UNCHANGED <<currentTrack, queueVars, repeatMode, audioUrl, audioSrc, pending,
                 shuffleHist, mixVars, audioTime>>

\* the element refused the audio.play() of togglePlay() (no source, or
\* blocked by the host): the controller reverts to stopped
playRefused ==
  /\ playRequested
  /\ playerState' = "stopped"
  /\ playRequested' = FALSE
  /\ lastOp' = Op("playRefused", currentTrack, "-", FALSE, <<playerState>>)
  /\ UNCHANGED <<currentTrack, queueVars, repeatMode, audioUrl, audioSrc, audioPlaying,
                 pending, shuffleHist, mixVars, audioTime>>

\* == volume, mute and seeking
\* the values the volume slider and callers hand to setVolume, in tenths
VolumeInputs == {0 - 3, 0, 4, FullVolume, FullVolume + 3}

\* setVolume storing the value as handed in
setVolumeUnclamped(v) ==
  /\ volume' = v
  /\ muted' = IF muted /\ v > 0 THEN FALSE ELSE muted
  /\ lastOp' = Op("setVolume", currentTrack, "-", FALSE, <<v, muted>>)
  /\ UNCHANGED <<currentTrack, playerState, queueVars, repeatMode, audioUrl, audioSrc,
                 audioPlaying, pending, shuffleHist, progress, nativeVars>>

\* setVolume leaving the mute flag alone
setVolumeKeepsMute(v) ==
  /\ volume' = Clamp(v, 0, FullVolume)
  /\ lastOp' = Op("setVolume", currentTrack, "-", FALSE, <<v, muted>>)
  /\ UNCHANGED <<currentTrack, playerState, queueVars, repeatMode, audioUrl, audioSrc,
                 audioPlaying, pending, shuffleHist, muted, progress, nativeVars>>

\* setVolume(v): clamp to [0, 1], store, unmute when muted and v > 0
setVolume(v) ==
  /\ volume' = Clamp(v, 0, FullVolume)
  /\ muted' = IF muted /\ v > 0 THEN FALSE ELSE muted
  /\ lastOp' = Op("setVolume", currentTrack, "-", FALSE, <<v, muted>>)
  /\ UNCHANGED <<currentTrack, playerState, queueVars, repeatMode, audioUrl, audioSrc,
                 audioPlaying, pending, shuffleHist, progress, nativeVars>>

\* toggleMute muting by setting the volume to 0
toggleMuteZeroesVolume ==
  /\ muted' = ~muted
  /\ volume' = IF muted THEN volume ELSE 0
  /\ lastOp' = Op("toggleMute", currentTrack, "-", FALSE,
                  <<muted, volume, lastOp.op = "toggleMute">>)
  /\ UNCHANGED <<currentTrack, playerState, queueVars, repeatMode, audioUrl, audioSrc,
                 audioPlaying, pending, shuffleHist, progress, nativeVars>>

\* toggleMute(): flip muted; the history keeps muted and volume as they
\* were, and whether the call before was toggleMute() too
toggleMute ==
  /\ muted' = ~muted
  /\ lastOp' = Op("toggleMute", currentTrack, "-", FALSE,
                  <<muted, volume, lastOp.op = "toggleMute">>)
  /\ UNCHANGED <<currentTrack, playerState, queueVars, repeatMode, audioUrl, audioSrc,
                 audioPlaying, pending, shuffleHist, volume, progress, nativeVars>>

\* the positions handed to seek, in time units, and the percentages handed
\* to seekPercent
SeekInputs == (0 - 1)..(Dur(Library[Len(Library)]) + 1)
PercentInputs == {0 - 50, 0, 50, 100, 150}

\* assign audio.currentTime
SetCurrentTime(name, time, arg) ==
  /\ audioTime' = time
  /\ lastOp' = Op(name, currentTrack, "-", FALSE, <<arg>>)
  /\ UNCHANGED <<currentTrack, playerState, queueVars, repeatMode, audioUrl, audioSrc,
                 audioPlaying, pending, shuffleHist, mixVars, playRequested>>

\* seek(seconds): clamp into [0, duration], assign the native position
seek(seconds) == SetCurrentTime("seek", Clamp(seconds, 0, duration), seconds)

\* seekPercent without the clamp
seekPercentUnclamped(pct) ==
  SetCurrentTime("seekPercent", (pct * duration) \div 100, pct)

\* seekPercent(pct): seek to pct / 100 of the duration
seekPercent(pct) ==
  SetCurrentTime("seekPercent", Clamp((pct * duration) \div 100, 0, duration), pct)

\* the native 'timeupdate' event: the position is where it was assigned, or
\* playback has moved it on; the listener copies it to _progress
timeupdate ==
  /\ audioSrc # NoUrl
  /\ \E t \in 0..Dur(audioSrc) :
       /\ t = audioTime \/ (audioPlaying /\ t > audioTime)
       /\ audioTime' = t
       /\ progress' = t
       /\ lastOp' = Op("timeupdate", currentTrack, "-", FALSE, <<t>>)
  /\ UNCHANGED <<currentTrack, playerState, queueVars, repeatMode, audioUrl, audioSrc,
                 audioPlaying, pending, shuffleHist, volume, muted, playRequested>>

\* == specification
\* no loadTrack call is suspended
Idle == Len(pending) = 0

\* fewer than MaxOverlap loadTrack calls are suspended
Room == Len(pending) < MaxOverlap

\* a suspended loadTrack call resumes
Resume(i) ==
  \/ loadTrackUrl(i)
  \/ loadTrackNoUrl(i)
  \/ loadTrackUrlThrows(i)
  \/ loadTrackPlayOk(i)
  \/ loadTrackPlayRejected(i)

\* the UI's setQueue calls
UiSetQueue ==
  \E tracks \in TrackLists, startIndex \in 0..MaxQueue :
    (startIndex < Len(tracks) \/ startIndex = 0) /\ setQueue(tracks, startIndex)

\* sequential use: a command that starts a load is issued when none is suspended
Next ==
  \/ Idle /\ \E t \in Tracks, autoPlay \in BOOLEAN : UiLoadTrack(t, autoPlay)
  \/ Idle /\ UiSetQueue
  \/ (Idle \/ NextIndex < 0) /\ next
  \/ Idle /\ previous
  \/ (Idle \/ (repeatMode # "one" /\ NextIndex < 0)) /\ handleTrackEnded
  \/ \E i \in 1..Len(pending) : Resume(i)
  \/ cycleRepeat
  \/ toggleShuffle

Spec == Init /\ [][Next]_vars

\* overlapping loads: loadTrack and setQueue are called while earlier
\* loadTrack calls are still suspended
NextOverlap ==
  \/ Room /\ \E t \in Tracks, autoPlay \in BOOLEAN : UiLoadTrack(t, autoPlay)
  \/ Room /\ UiSetQueue
  \/ \E i \in 1..Len(pending) : Resume(i)

SpecOverlap == Init /\ [][NextOverlap]_vars

\* playback driven through the queue only: no direct loadTrack call
NextQueue ==
  \/ Idle /\ UiSetQueue
  \/ (Idle \/ NextIndex < 0) /\ next
  \/ Idle /\ previous
  \/ (Idle \/ (repeatMode # "one" /\ NextIndex < 0)) /\ handleTrackEnded
  \/ \E i \in 1..Len(pending) : Resume(i)
  \/ cycleRepeat
  \/ toggleShuffle

SpecQueue == Init /\ [][NextQueue]_vars

\* one queue is started and left to play out: every load and every play()
\* succeeds, the element reports its position, every playing track ends
ResumeOk == \E i \in 1..Len(pending) : loadTrackUrl(i) \/ loadTrackPlayOk(i)
Ended == Idle /\ handleTrackEnded

NextDrain ==
  \/ (queue = <<>> /\ Idle) /\ UiSetQueue
  \/ ResumeOk
  \/ Ended
  \/ timeupdate

SpecDrain ==
  Init /\ [][NextDrain]_vars /\ WF_vars(ResumeOk) /\ WF_vars(Ended)

\* the shuffle button used next to the volume slider and the mute button,
\* while queues are started and the element reports its position
NextShuffle ==
  \/ Idle /\ UiSetQueue
  \/ ResumeOk
  \/ toggleShuffle
  \/ \E v \in VolumeInputs : setVolume(v)
  \/ toggleMute
  \/ timeupdate

SpecShuffle == Init /\ [][NextShuffle]_vars

\* the transport buttons: queues are started and tracks end one load at a
\* time, and the play/pause button is pressed at any moment
NextPlay ==
  \/ Idle /\ \E t \in Tracks, autoPlay \in BOOLEAN : UiLoadTrack(t, autoPlay)
  \/ Idle /\ UiSetQueue
  \/ (Idle \/ NextIndex < 0) /\ next
  \/ (Idle \/ (repeatMode # "one" /\ NextIndex < 0)) /\ handleTrackEnded
  \/ \E i \in 1..Len(pending) : Resume(i)
  \/ togglePlay
  \/ playing
  \/ playRefused

SpecPlay == Init /\ [][NextPlay]_vars

\* the player bar: tracks are loaded one at a time, the volume slider, the
\* mute button and the progress bar are used, and the element reports its
\* position
NextAudio ==
  \/ Idle /\ \E t \in Tracks, autoPlay \in BOOLEAN : UiLoadTrack(t, autoPlay)
  \/ \E i \in 1..Len(pending) : Resume(i)
  \/ \E v \in VolumeInputs : setVolume(v)
  \/ toggleMute
  \/ \E seconds \in SeekInputs : seek(seconds)
  \/ \E pct \in PercentInputs : seekPercent(pct)
  \/ timeupdate

SpecAudio == Init /\ [][NextAudio]_vars

\* == properties
\* the step started loadTrack(t, true): t is published, the state is
\* buffering and the newest suspended call is for t with autoPlay
StartedPlaying(t) ==
  /\ currentTrack' = t
  /\ playerState' = "buffering"
  /\ Len(pending') = Len(pending) + 1
  /\ pending'[Len(pending')] =
       [track |-> t, autoPlay |-> TRUE, pc |-> "getAudioUrl", newest |-> TRUE]

InRange(i, q) == 0 <= i /\ i < Len(q)

\* C1: whenever the queue is non-empty, 0 <= queueIndex < queue.length
C1_QueueIndexValid == hasQueue => InRange(queueIndex, queue)

\* C2: on 'ended' the handler decides in priority order: repeat one replays
\* the same track without moving queueIndex; else before the last position
\* it advances by one and plays that track; else repeat all goes to index 0
\* and plays; else the state becomes stopped
C2_EndedPriority ==
  [][lastOp'.op = "ended" =>
       IF repeatMode = "one"
       THEN queueIndex' = queueIndex /\ StartedPlaying(currentTrack)
       ELSE IF queueIndex < Len(queue) - 1
       THEN queueIndex' = queueIndex + 1
            /\ StartedPlaying(TrackAt(queue, queueIndex + 1))
       ELSE IF repeatMode = "all"
       THEN queueIndex' = 0 /\ StartedPlaying(TrackAt(queue, 0))
       ELSE playerState' = "stopped" /\ queueIndex' = queueIndex
            /\ pending' = pending /\ currentTrack' = currentTrack]_vars

\* C2 witness: an 'ended' event at the last of several tracks wrapped to index 0
C2_Witness ==
  /\ lastOp.op = "ended"
  /\ repeatMode = "all"
  /\ Len(queue) >= 2
  /\ queueIndex = 0
  /\ currentTrack = queue[1]
  /\ playerState = "buffering"

\* C3: with repeat off and a valid index, next()/previous() keep queueIndex
\* in range and lead to stopped exactly when next() is called at the last index
C3_StoppedOnlyPastLast ==
  [][(lastOp'.op \in {"next", "previous"} /\ repeatMode = "off"
        /\ hasQueue /\ InRange(queueIndex, queue)) =>
       /\ InRange(queueIndex', queue')
       /\ (playerState' = "stopped")
            <=> (lastOp'.op = "next" /\ queueIndex = Len(queue) - 1)]_vars

\* C3 witness: next() at the last of several tracks, repeat off, stopped
C3_Witness ==
  /\ lastOp.op = "next"
  /\ repeatMode = "off"
  /\ Len(queue) >= 2
  /\ queueIndex = Len(queue) - 1
  /\ playerState = "stopped"

\* C4: with repeat all, next() at the last index goes to index 0 and
\* previous() at index 0 goes to the last index; the track there becomes
\* currentTrack and is loaded with autoPlay
C4_RepeatAllWraps ==
  [][(repeatMode = "all" /\ hasQueue) =>
       /\ (lastOp'.op = "next" /\ queueIndex = Len(queue) - 1) =>
            (queueIndex' = 0 /\ StartedPlaying(queue[1]))
       /\ (lastOp'.op = "previous" /\ queueIndex = 0) =>
            (queueIndex' = Len(queue) - 1 /\ StartedPlaying(queue[Len(queue)]))]_vars

\* C4 witness: previous() has just put the index on the last of three tracks
C4_Witness ==
  /\ lastOp.op = "previous"
  /\ repeatMode = "all"
  /\ Len(queue) = MaxQueue
  /\ queueIndex = Len(queue) - 1
  /\ currentTrack = queue[Len(queue)]
  /\ playerState = "buffering"

\* C5: disabling shuffle restores the queue shuffle was enabled on, element
\* for element, whatever next()/previous()/'ended' happened in between
\* (anything but a setQueue)
C5_ShuffleRoundTrip ==
  [][(lastOp'.op = "toggleShuffle" /\ shuffle /\ ~shuffleHist.replaced) =>
       queue' = shuffleHist.q]_vars

\* C5 witness: shuffle was enabled on a queue, the index moved, the shuffled
\* order differed, and shuffle has just been disabled
C5_Witness ==
  /\ lastOp.op = "toggleShuffle"
  /\ ~shuffle
  /\ ~shuffleHist.replaced
  /\ shuffleHist.moved
  /\ Len(queue) = MaxQueue
  /\ queue = shuffleHist.q

\* C6: enabling shuffle while the current track is in the queue puts it at
\* queue[0], sets queueIndex to 0 and snapshots the previous queue, for
\* every outcome of the random draws
C6_ShuffleOnKeepsCurrentFirst ==
  [][(lastOp'.op = "toggleShuffle" /\ ~shuffle /\ currentTrack \in Range(queue)) =>
       /\ queue'[1] = currentTrack
       /\ queueIndex' = 0
       /\ originalQueue' = queue]_vars

\* C6 witness: shuffle enabled on three tracks, the current track was not
\* first before and is first now
C6_Witness ==
  /\ lastOp.op = "toggleShuffle"
  /\ shuffle
  /\ Len(queue) = MaxQueue
  /\ currentTrack = queue[1]
  /\ originalQueue[1] # currentTrack
  /\ queueIndex = 0

\* C7: after disabling shuffle queue[queueIndex] is the current track and
\* the originalQueue snapshot no longer exists
C7_ShuffleOffReindexes ==
  (lastOp.op = "toggleShuffle" /\ ~shuffle /\ currentTrack \in Range(queue)) =>
    (TrackAt(queue, queueIndex) = currentTrack /\ originalQueue = <<>>)

\* C8: every loadTrack call that returns false leaves playerState stopped
C8_FailedLoadStops ==
  lastOp.returned = "false" => playerState = "stopped"

\* C9 as stated: after a failed loadTrack(track) currentTrack is that track
C9_FailedLoadKeepsItsTrack ==
  lastOp.returned = "false" => currentTrack = lastOp.track

\* C9 amended: a failed loadTrack(track) does not clear currentTrack, and
\* currentTrack is that track when no loadTrack call started after it
C9_FailedLoadKeepsNewestTrack ==
  lastOp.returned = "false" =>
    /\ currentTrack # NoTrack
    /\ lastOp.newest => currentTrack = lastOp.track

\* C9 witness: the most recently started load failed in the catch block
C9_Witness ==
  /\ lastOp.op = "loadTrackUrlThrows"
  /\ lastOp.returned = "false"
  /\ lastOp.newest
  /\ lastOp.track \in Tracks
  /\ currentTrack = lastOp.track
  /\ playerState = "stopped"

\* C10: setQueue(tracks, startIndex) with a valid startIndex replaces queue
\* and queueIndex and loads tracks[startIndex] with autoPlay; when that load
\* (still the newest) plays, currentTrack is that track and the state playing
C10_SetQueueLoads ==
  [][/\ (lastOp'.op = "setQueue"
           /\ InRange(lastOp'.args[2], lastOp'.args[1])) =>
          /\ queue' = lastOp'.args[1]
          /\ queueIndex' = lastOp'.args[2]
          /\ StartedPlaying(lastOp'.args[1][lastOp'.args[2] + 1])
     /\ (lastOp'.op = "loadTrackPlayOk" /\ lastOp'.newest) =>
          /\ currentTrack' = lastOp'.track
          /\ playerState' = "playing"
          /\ lastOp'.returned = "true"]_vars

\* C10 witness: the track setQueue started at index 1 is playing (the queue
\* was set, never shuffled, and the index never moved)
C10_Witness ==
  /\ lastOp.op = "loadTrackPlayOk"
  /\ lastOp.newest
  /\ Len(queue) >= 2
  /\ queueIndex = 1
  /\ currentTrack = queue[2]
  /\ playerState = "playing"
  /\ shuffleHist.replaced /\ ~shuffleHist.moved
  /\ originalQueue = <<>>

\* C12: next() at the last index with repeat off (queue [A,B,C], index 2
\* included) leaves playerState stopped, currentTrack and queueIndex as they
\* were, and canPlayNext false
C12_NextAtLastStops ==
  [][(lastOp'.op = "next" /\ repeatMode = "off" /\ hasQueue
        /\ queueIndex = Len(queue) - 1) =>
       /\ playerState' = "stopped"
       /\ currentTrack' = currentTrack
       /\ queueIndex' = queueIndex
       /\ queue' = queue
       /\ ~canPlayNext']_vars

\* C12 witness: next() was called at index 2 of [A,B,C] with repeat off while
\* C was playing, and the player is stopped on C
C12_Witness ==
  /\ lastOp.op = "next"
  /\ repeatMode = "off"
  /\ queue = Library
  /\ queueIndex = Len(Library) - 1
  /\ currentTrack = Library[Len(Library)]
  /\ audioSrc = currentTrack
  /\ playerState = "stopped"
  /\ ~canPlayNext

\* C13: canPlayNext is true exactly when repeatMode is all or one, or
\* queueIndex < queue.length - 1; so with repeat off it is false at the last
\* index and for an empty queue
C13_CanPlayNext ==
  /\ canPlayNext <=> (repeatMode \in {"all", "one"} \/ queueIndex < Len(queue) - 1)
  /\ (repeatMode = "off" /\ (queue = <<>> \/ queueIndex = Len(queue) - 1))
       => ~canPlayNext

\* C13 witness: setQueue([], 0) emptied the queue with repeat off, and
\* canPlayNext is false
C13_Witness ==
  /\ lastOp.op = "setQueue"
  /\ queue = <<>>
  /\ repeatMode = "off"
  /\ currentTrack # NoTrack
  /\ ~canPlayNext

\* C20: cycleRepeat() maps off to all, all to one and one to off, three
\* calls in a row return repeatMode to where it started, and no call changes
\* queue, queueIndex or playerState
C20_CycleRepeat ==
  [][lastOp'.op = "cycleRepeat" =>
       /\ repeatMode = "off" => repeatMode' = "all"
       /\ repeatMode = "all" => repeatMode' = "one"
       /\ repeatMode = "one" => repeatMode' = "off"
       /\ NextRepeatMode(NextRepeatMode(repeatMode')) = repeatMode
       /\ UNCHANGED <<queue, queueIndex, playerState>>]_vars

\* C20 witness: cycleRepeat() took repeat one back to off while a full queue
\* was playing
C20_Witness ==
  /\ lastOp.op = "cycleRepeat"
  /\ repeatMode = "off"
  /\ Len(queue) = MaxQueue
  /\ playerState = "playing"

\* C14: setVolume(v) stores v clamped to [0, 1], and volume, 0.7 at the
\* start, is within [0, 1] in every state
C14_VolumeClamped ==
  /\ volume = InitialVolume
  /\ [][/\ lastOp'.op = "setVolume" =>
            volume' = (IF lastOp'.args[1] < 0 THEN 0
                       ELSE IF lastOp'.args[1] > FullVolume THEN FullVolume
                       ELSE lastOp'.args[1])
        /\ 0 <= volume' /\ volume' <= FullVolume]_vars

\* C14 witness: setVolume was handed more than 1 and volume is 1
C14_Witness ==
  /\ lastOp.op = "setVolume"
  /\ lastOp.args[1] > FullVolume
  /\ volume = FullVolume

\* C15: setVolume(v) while muted clears muted when v > 0 and leaves it set
\* when the clamped value is 0; while not muted it leaves muted false
C15_SetVolumeUnmutes ==
  [][lastOp'.op = "setVolume" =>
       /\ (muted /\ lastOp'.args[1] > 0) => ~muted'
       /\ (muted /\ volume' = 0) => muted'
       /\ ~muted => ~muted']_vars

\* C15 witness: setVolume with a positive value was called while muted and
\* muted is cleared
C15_Witness ==
  /\ lastOp.op = "setVolume"
  /\ lastOp.args[1] > 0
  /\ lastOp.args[2]
  /\ ~muted

\* C16: toggleMute() negates muted and leaves volume as it was; the second of
\* two calls in a row returns muted and volume to what they were before the first
C16_ToggleMute ==
  [][lastOp'.op = "toggleMute" =>
       /\ muted' = ~muted
       /\ volume' = volume
       /\ lastOp'.args[3] = (lastOp.op = "toggleMute")
       /\ lastOp.op = "toggleMute" =>
            (muted' = lastOp.args[1] /\ volume' = lastOp.args[2])]_vars

\* C16 witness: toggleMute() was called twice in a row at a volume other
\* than the initial one, and muted is false again
C16_Witness ==
  /\ lastOp.op = "toggleMute"
  /\ lastOp.args[3]
  /\ ~muted
  /\ volume = 4

\* C17: seekPercent(p) sets the native position to p / 100 * duration for p
\* in [0, 100]; for p outside [0, 100], and for seek(s) with s outside
\* [0, duration], the position is clamped into [0, duration]
C17_SeekClamped ==
  [][/\ lastOp'.op = "seekPercent" =>
          LET p == lastOp'.args[1] IN
            /\ (0 <= p /\ p <= 100) => audioTime' * 100 = p * duration
            /\ p < 0 => audioTime' = 0
            /\ p > 100 => audioTime' = duration
     /\ lastOp'.op = "seek" =>
          LET sec == lastOp'.args[1] IN
            /\ (0 <= sec /\ sec <= duration) => audioTime' = sec
            /\ sec < 0 => audioTime' = 0
            /\ sec > duration => audioTime' = duration]_vars

\* C17 witness: seekPercent(150) on a track of length 6 left the position at 6
C17_Witness ==
  /\ lastOp.op = "seekPercent"
  /\ lastOp.args[1] = 150
  /\ duration = 6
  /\ audioTime = 6
  /\ audioSrc = currentTrack

\* C18: in every state 0 <= progress <= duration
C18_ProgressWithinDuration == 0 <= progress /\ progress <= duration

\* C19: progressPercent is 0 when duration is 0 and progress / duration * 100
\* when duration > 0
C19_ProgressPercent ==
  /\ progressPercent.den # 0
  /\ duration = 0 => progressPercent.num = 0
  /\ duration > 0 =>
       progressPercent.num * duration = progress * 100 * progressPercent.den

\* C19 witness: a 'timeupdate' at position 3 of a track of length 4, 75 percent
C19_Witness ==
  /\ lastOp.op = "timeupdate"
  /\ duration = 4
  /\ progress = 3
  /\ progressPercent = Ratio(300, 4)

\* C11: togglePlay() takes playerState from playing to paused, and from
\* paused or stopped, with a source assigned, to playing once the native
\* playback it asked for starts; in none of the three states is the call
\* without effect
C11_TogglePlay ==
  [][/\ (lastOp'.op = "togglePlay" /\ playerState = "playing") =>
          playerState' = "paused"
     /\ (lastOp'.op = "togglePlay" /\ playerState \in {"paused", "stopped"}) =>
          playRequested'
     /\ (lastOp'.op = "playing" /\ playerState \in {"paused", "stopped"}) =>
          (playRequested /\ playerState' = "playing")
     /\ (lastOp'.op = "togglePlay" /\ audioSrc # NoUrl
           /\ playerState \in {"playing", "paused", "stopped"}) =>
          (playerState' # playerState \/ (playRequested' /\ audioSrc' # NoUrl))]_vars

\* C11 witness: a playing track was paused by togglePlay(), togglePlay() was
\* called again, and the 'playing' event took the state from paused to playing
C11_Witness ==
  /\ lastOp.op = "playing"
  /\ lastOp.args[1] = "paused"
  /\ playerState = "playing"
  /\ audioPlaying
  /\ audioSrc = currentTrack

\* C21: when loadTrack calls overlap, the completion of the older one is
\* ignored: once all have completed and the last to finish has succeeded, the
\* native source and the held URL are those of the newest call's track,
\* which is currentTrack
C21_NewestLoadWins ==
  (Idle /\ lastOp.returned = "true") =>
     (audioUrl = currentTrack /\ audioSrc = currentTrack)

\* C22: at most one blob URL is allocated and not yet revoked: a URL is only
\* ever stored when none is held, so none is overwritten without being revoked
C22_NoUrlOverwritten ==
  [][lastOp'.op = "loadTrackUrl" => audioUrl = NoUrl]_vars

\* C23: right after a loadTrack call has returned false (no source, or play()
\* rejected) no blob URL is held
C23_FailedLoadHoldsNoUrl ==
  lastOp.returned = "false" => audioUrl = NoUrl

\* C24: a command issued while a loadTrack is suspended in getAudioUrl does
\* not change playerState, queueIndex or currentTrack before that call resumes
C24_CommandsWaitForLoad ==
  [][((\E i \in 1..Len(pending) : pending[i].pc = "getAudioUrl")
        /\ lastOp'.op \in {"setQueue", "next", "previous", "togglePlay", "seek"}) =>
       UNCHANGED <<playerState, queueIndex, currentTrack>>]_vars

\* C25: once every started loadTrack call has completed, however it ended,
\* playerState is not buffering
C25_BufferingOnlyInFlight == Idle => playerState # "buffering"

\* C26: with a non-empty queue and playback driven only through setQueue,
\* next, previous, toggleShuffle and 'ended', currentTrack is the track at
\* queue[queueIndex] whenever no load is in flight
C26_CurrentTrackAtIndex ==
  (hasQueue /\ Idle) => currentTrack = TrackAt(queue, queueIndex)

\* the number of positions of s holding x
Occurrences(s, x) == Cardinality({k \in 1..Len(s) : s[k] = x})

\* same tracks, same multiplicities, same length
IsPermutation(a, b) ==
  /\ Len(a) = Len(b)
  /\ \A x \in Range(a) \cup Range(b) : Occurrences(a, x) = Occurrences(b, x)

\* C27: the queue is a permutation of the list passed to the most recent
\* setQueue: setQueue stores the list it is given, and toggleShuffle (either
\* way), next and previous leave a permutation of the queue they found
C27_QueueIsPermutation ==
  [][/\ lastOp'.op = "setQueue" => queue' = lastOp'.args[1]
     /\ lastOp'.op \in {"toggleShuffle", "next", "previous"} =>
          IsPermutation(queue', queue)]_vars

\* C28: with repeat off, a non-empty queue, every load and play succeeding
\* and every playing track ending, with no further commands: each 'ended'
\* is that of the track at queueIndex and starts the next track in queue
\* order, and the controller eventually is stopped at the last index
C28_QueuePlaysOut ==
  /\ [][lastOp'.op = "ended" =>
          /\ repeatMode = "off"
          /\ playerState = "playing" /\ audioSrc = TrackAt(queue, queueIndex)
          /\ IF queueIndex < Len(queue) - 1
             THEN queueIndex' = queueIndex + 1
                  /\ StartedPlaying(TrackAt(queue, queueIndex + 1))
             ELSE queueIndex' = queueIndex /\ playerState' = "stopped"]_vars
  /\ hasQueue ~> (Idle /\ playerState = "stopped" /\ queueIndex = Len(queue) - 1)

\* C28 witness: the whole library, started at index 0, has played out: its
\* last track has ended and the controller is stopped at the last index
C28_Witness ==
  /\ lastOp.op = "ended"
  /\ queue = Library
  /\ queueIndex = Len(Library) - 1
  /\ currentTrack = Library[Len(Library)]
  /\ audioSrc = currentTrack
  /\ playerState = "stopped"
  /\ Idle

\* C29: playerState playing, paused or buffering implies a current track;
\* togglePlay() with no current track, and the element's answer to it, leave
\* the state stopped
C29_ActiveImpliesTrack ==
  /\ playerState \in {"playing", "paused", "buffering"} => hasTrack
  /\ (~hasTrack /\ lastOp.op \in {"togglePlay", "playing", "playRefused"}) =>
       playerState = "stopped"

\* C29 witness: togglePlay() was called with no current track, the element
\* refused to play, and the state is stopped
C29_Witness ==
  /\ ~hasTrack
  /\ lastOp.op = "playRefused"
  /\ playerState = "stopped"
  /\ ~audioPlaying

\* C30: toggleShuffle(), enabling or disabling, leaves currentTrack,
\* playerState, progress, repeatMode, volume and muted unchanged and starts
\* no load
C30_ToggleShuffleFrame ==
  [][lastOp'.op = "toggleShuffle" =>
       /\ shuffle' = ~shuffle
       /\ UNCHANGED <<currentTrack, playerState, progress, repeatMode, volume, muted>>
       /\ UNCHANGED <<pending, audioUrl, audioSrc>>]_vars

\* C30 witness: shuffle was enabled on a full queue while a track was
\* playing part-way through, muted, at a volume other than the initial one
C30_Witness ==
  /\ lastOp.op = "toggleShuffle"
  /\ shuffle
  /\ Len(queue) = MaxQueue
  /\ queue # originalQueue
  /\ playerState = "playing"
  /\ progress > 0
  /\ muted
  /\ volume = 4

====
